---- MODULE Spec2Model ----
(***************************************************************************)
(* Session lifecycle, retention queue and print dispatch of                *)
(* queue-print-backend/index.js, as a state machine.  One action per       *)
(* macrotask of the Node event loop: an HTTP handler runs up to its first  *)
(* await on real I/O, and every later action is the continuation that runs *)
(* when that I/O returns (or a timer / child-process callback).            *)
(***************************************************************************)
EXTENDS Integers, Sequences, FiniteSets, Bags, TLC

\* Bounds of the model: uuidv4() values are drawn in order from 1..Max.
MaxSessions == 2
MaxFiles == 2
MaxLines == 2

\* JS null / undefined.
None == 0

Sids == 1..MaxSessions
Fids == 1..MaxFiles

VARIABLES
    activeSessionId,  \* index.js:35
    sessionFiles,     \* index.js:36, sessionId -> sequence of file ids
    container,        \* index.js:37, None or the session the container was created for
    fileUploadDir,    \* index.js:38, None or the session whose directory it names
    nextSid,          \* next uuidv4() of /start-session
    nextFid,          \* next uuidv4() of multer's filename / newFile.id
    startPc,          \* position of each /start-session handler
    endH,             \* each /end-session handler: position and captured locals
    imageExists,      \* docker has queue-print-base:latest
    buildDir,         \* docker_base_build/Dockerfile exists
    running,          \* containers that are running
    stopCalls,        \* containers on which stop() has been called
    bgStops,          \* stop() calls of the catch block still in flight
    dirs,             \* session upload directories that exist
    disk,             \* payload id -> directory holding it, None when absent
    inflight,         \* payloads multer stored whose /upload handler has not run
    files,            \* file id -> record made by /upload, and how it left the queue
    ttl,              \* file ids whose 2-minute timer is pending
    simPending,       \* file ids with a simulation-sink timer pending
    execPending,      \* file ids with an lp child process still running
    emitted,          \* bag of io.emit notifications
    crashed,          \* None, or the file whose callback threw uncaught
    lpstat,           \* stdout of an `lpstat -a` child whose callback is pending
    printers          \* the last answer of /printers, none before the first

vars == <<activeSessionId, sessionFiles, container, fileUploadDir, nextSid, nextFid,
          startPc, endH, imageExists, buildDir, running, stopCalls, bgStops,
          dirs, disk, inflight, files, ttl, simPending, execPending,
          emitted, crashed, lpstat, printers>>

globals == <<activeSessionId, sessionFiles, container, fileUploadDir>>
sandbox == <<imageExists, buildDir, running, stopCalls, bgStops>>
storage == <<dirs, disk, inflight>>
timers == <<ttl, simPending, execPending>>
spooler == <<lpstat, printers>>
server == <<globals, nextSid, nextFid, startPc, endH, sandbox, storage, files,
            timers, emitted, crashed>>

----------------------------------------------------------------------------
\* Helpers

Range(q) == {q[i] : i \in 1..Len(q)}

\* Array.prototype.findIndex(f => f.id === id) > -1
Found(sid, fid) == sid \in DOMAIN sessionFiles /\ fid \in Range(sessionFiles[sid])

\* Array.prototype.splice(index, 1) at the index of fid
Splice(q, fid) == SelectSeq(q, LAMBDA x : x # fid)

Event(type, sid, fid) == [type |-> type, sid |-> sid, fid |-> fid]

Emit(e) == emitted (+) SetToBag({e})

Count(e) == CopiesIn(e, emitted)

NoFile == [sid |-> None, ticket |-> 0, removedBy |-> "none"]

NoEnd == [pc |-> "none", cont |-> None, dir |-> None, from |-> "none"]

InFlight == {"listImages", "build", "create", "start", "inspect", "qrcode"}

\* The lifecycle state of one session, read off its two handlers.
SessState(s) ==
    IF endH[s].pc = "stopping" THEN "Ending"
    ELSE IF endH[s].pc \in {"done", "failed"} THEN "Idle"
    ELSE IF startPc[s] \in InFlight THEN "Provisioning"
    ELSE IF startPc[s] = "done" THEN "Active"
    ELSE "Idle"

NonIdle == {s \in Sids : SessState(s) # "Idle"}

GlobalIdle == NonIdle = {}

----------------------------------------------------------------------------
Init ==
    /\ activeSessionId = None
    /\ sessionFiles = << >>
    /\ container = None
    /\ fileUploadDir = None
    /\ nextSid = 1
    /\ nextFid = 1
    /\ startPc = [s \in Sids |-> "none"]
    /\ endH = [s \in Sids |-> NoEnd]
    /\ imageExists \in BOOLEAN
    /\ buildDir = FALSE
    /\ running = {}
    /\ stopCalls = {}
    /\ bgStops = {}
    /\ dirs = {}
    /\ disk = [f \in Fids |-> None]
    /\ inflight = {}
    /\ files = [f \in Fids |-> NoFile]
    /\ ttl = {}
    /\ simPending = {}
    /\ execPending = {}
    /\ emitted = EmptyBag
    /\ crashed = None
    /\ lpstat = {}
    /\ printers = {}

----------------------------------------------------------------------------
\* POST /start-session

\* if (activeSessionId) / if (!activeSessionId)
SessionActive == activeSessionId # None

\* if (activeSessionId) return res.status(400)
StartSessionReject ==
    /\ crashed = None
    /\ SessionActive
    /\ UNCHANGED vars

StartSessionAccept ==
    /\ crashed = None
    /\ ~SessionActive
    /\ nextSid <= MaxSessions
    /\ activeSessionId' = nextSid
    /\ sessionFiles' = (nextSid :> << >>) @@ sessionFiles
    /\ fileUploadDir' = nextSid
    /\ startPc' = [startPc EXCEPT ![nextSid] = "listImages"]
    /\ nextSid' = nextSid + 1
    /\ UNCHANGED <<container, nextFid, endH, sandbox, storage, files, timers,
                   emitted, crashed, spooler>>

\* A catch block that forgets to reset the session id.
CatchSessionId_m == activeSessionId

\* catch block: activeSessionId = null
CatchSessionId == None

\* catch block of /start-session, answering 500
StartCatch(s) ==
    /\ activeSessionId' = CatchSessionId
    /\ fileUploadDir' = None
    /\ IF container # None
       THEN /\ bgStops' = bgStops \cup {container}
            /\ stopCalls' = stopCalls \cup {container}
       ELSE UNCHANGED <<bgStops, stopCalls>>
    /\ container' = None
    /\ startPc' = [startPc EXCEPT ![s] = "failed"]
    /\ UNCHANGED <<sessionFiles, running, emitted>>

\* An ensureBaseImage that builds without looking at the lookup's result.
ListImagesReturn_m(s, ok) ==
    /\ crashed = None
    /\ startPc[s] = "listImages"
    /\ IF ~ok
       THEN StartCatch(s) /\ UNCHANGED <<imageExists, buildDir>>
       ELSE /\ startPc' = [startPc EXCEPT ![s] = "build"]
            /\ buildDir' = TRUE
            /\ UNCHANGED <<globals, imageExists, running, stopCalls, bgStops,
                           emitted>>
    /\ UNCHANGED <<nextSid, nextFid, endH, storage, files, timers,
                   crashed, spooler>>

\* ensureBaseImage: docker.listImages() returns
ListImagesReturn(s, ok) ==
    /\ crashed = None
    /\ startPc[s] = "listImages"
    /\ IF ~ok
       THEN StartCatch(s) /\ UNCHANGED <<imageExists, buildDir>>
       ELSE /\ IF imageExists
               THEN /\ startPc' = [startPc EXCEPT ![s] = "create"]
                    /\ UNCHANGED buildDir
               ELSE /\ startPc' = [startPc EXCEPT ![s] = "build"]
                    /\ buildDir' = TRUE
            /\ UNCHANGED <<globals, imageExists, running, stopCalls, bgStops,
                           emitted>>
    /\ UNCHANGED <<nextSid, nextFid, endH, storage, files, timers,
                   crashed, spooler>>

\* ensureBaseImage: docker.buildImage / followProgress returns
BuildReturn(s, ok) ==
    /\ crashed = None
    /\ startPc[s] = "build"
    /\ IF ~ok
       THEN StartCatch(s) /\ UNCHANGED <<imageExists, buildDir>>
       ELSE /\ imageExists' = TRUE
            /\ IF buildDir
               THEN /\ buildDir' = FALSE
                    /\ startPc' = [startPc EXCEPT ![s] = "create"]
                    /\ UNCHANGED <<globals, running, stopCalls, bgStops,
                                   emitted>>
               ELSE StartCatch(s) /\ UNCHANGED buildDir
    /\ UNCHANGED <<nextSid, nextFid, endH, storage, files, timers,
                   crashed, spooler>>

\* createAndStartContainer: docker.createContainer returns
CreateReturn(s, ok) ==
    /\ crashed = None
    /\ startPc[s] = "create"
    /\ IF ~ok
       THEN StartCatch(s)
       ELSE /\ container' = s
            /\ startPc' = [startPc EXCEPT ![s] = "start"]
            /\ UNCHANGED <<activeSessionId, sessionFiles, fileUploadDir, running,
                           stopCalls, bgStops, emitted>>
    /\ UNCHANGED <<nextSid, nextFid, endH, imageExists, buildDir, storage, files,
                   timers, crashed, spooler>>

\* createAndStartContainer: container.start() returns
StartReturn(s, ok) ==
    /\ crashed = None
    /\ startPc[s] = "start"
    /\ IF ~ok
       THEN StartCatch(s)
       ELSE /\ running' = running \cup {s}
            /\ startPc' = [startPc EXCEPT ![s] = "inspect"]
            /\ UNCHANGED <<globals, stopCalls, bgStops, emitted>>
    /\ UNCHANGED <<nextSid, nextFid, endH, imageExists, buildDir, storage, files,
                   timers, crashed, spooler>>

\* A continuation that waits on instead of going on.
InspectReturn_m(s, ok) ==
    /\ crashed = None
    /\ startPc[s] = "inspect"
    /\ UNCHANGED vars

\* createAndStartContainer: container.inspect() returns
InspectReturn(s, ok) ==
    /\ crashed = None
    /\ startPc[s] = "inspect"
    /\ IF ~ok
       THEN StartCatch(s)
       ELSE /\ startPc' = [startPc EXCEPT ![s] = "qrcode"]
            /\ UNCHANGED <<globals, running, stopCalls, bgStops, emitted>>
    /\ UNCHANGED <<nextSid, nextFid, endH, imageExists, buildDir, storage, files,
                   timers, crashed, spooler>>

\* /start-session: qrcode.toDataURL returns
QrReturn(s, ok) ==
    /\ crashed = None
    /\ startPc[s] = "qrcode"
    /\ IF ~ok
       THEN StartCatch(s)
       ELSE /\ emitted' = Emit(Event("session-started", s, None))
            /\ startPc' = [startPc EXCEPT ![s] = "done"]
            /\ UNCHANGED <<globals, running, stopCalls, bgStops>>
    /\ UNCHANGED <<nextSid, nextFid, endH, imageExists, buildDir, storage, files,
                   timers, crashed, spooler>>

\* stopAndRemoveContainer called without await by the catch block returns
BgStopReturn(c, ok) ==
    /\ crashed = None
    /\ c \in bgStops
    /\ bgStops' = bgStops \ {c}
    /\ running' = IF ok THEN running \ {c} ELSE running
    /\ UNCHANGED <<globals, nextSid, nextFid, startPc, endH, imageExists, buildDir,
                   stopCalls, storage, files, timers, emitted,
                   crashed, spooler>>

----------------------------------------------------------------------------
\* POST /end-session

\* A cleanup that forgets to drop the queue.
DeleteQueue_m(s) == sessionFiles

\* cleanupSessionFiles: delete sessionFiles[sessionId]
DeleteQueue(s) == [k \in DOMAIN sessionFiles \ {s} |-> sessionFiles[k]]

\* cleanupSessionFiles: unlink every file of the directory, then rmdir
CleanDisk(d) == [f \in Fids |-> IF disk[f] = d THEN None ELSE disk[f]]

\* Records still queued when cleanupSessionFiles drops the queue.
MarkEnded(s) ==
    [f \in Fids |-> IF Found(s, f) THEN [files[f] EXCEPT !.removedBy = "end"]
                    ELSE files[f]]

\* /end-session after `await stopAndRemoveContainer(container)`: the rest of
\* the try block.  cleanOk = FALSE is an fs error thrown inside
\* cleanupSessionFiles, possible only when the directory exists.
EndFinish(s, c, d, from, cleanOk) ==
    /\ container' = None
    /\ IF cleanOk \/ d \notin dirs
       THEN /\ dirs' = dirs \ {d}
            /\ disk' = CleanDisk(d)
            /\ inflight' = {p \in inflight : disk[p] # d}
            /\ sessionFiles' = DeleteQueue(s)
            /\ files' = MarkEnded(s)
            /\ emitted' = Emit(Event("session-ended", s, None))
            /\ endH' = [endH EXCEPT ![s] =
                           [pc |-> "done", cont |-> c, dir |-> d, from |-> from]]
       ELSE /\ endH' = [endH EXCEPT ![s] =
                           [pc |-> "failed", cont |-> c, dir |-> d, from |-> from]]
            /\ UNCHANGED <<dirs, disk, inflight, sessionFiles, files, emitted>>

\* A reject branch that announces the end before testing for a session.
EndSessionReject_m ==
    /\ crashed = None
    /\ ~SessionActive
    /\ emitted' = Emit(Event("session-ended", None, None))
    /\ UNCHANGED <<globals, nextSid, nextFid, startPc, endH, sandbox, storage,
                   files, timers, crashed, spooler>>

\* if (!activeSessionId) return res.status(400)
EndSessionReject ==
    /\ crashed = None
    /\ ~SessionActive
    /\ UNCHANGED vars

\* /end-session with container = null: the awaited promise is already
\* resolved, so the handler runs to its end in the same macrotask.
EndSessionDirect(cleanOk) ==
    /\ crashed = None
    /\ SessionActive
    /\ container = None
    /\ activeSessionId' = None
    /\ fileUploadDir' = None
    /\ EndFinish(activeSessionId, None, fileUploadDir, SessState(activeSessionId),
                 cleanOk)
    /\ UNCHANGED <<nextSid, nextFid, startPc, sandbox, timers,
                   crashed, spooler>>

\* An /end-session that keeps the session id until the sandbox has stopped.
EndSessionAwait_m ==
    /\ crashed = None
    /\ SessionActive
    /\ container # None
    /\ endH[activeSessionId].pc = "none"
    /\ fileUploadDir' = None
    /\ stopCalls' = stopCalls \cup {container}
    /\ endH' = [endH EXCEPT ![activeSessionId] =
                   [pc |-> "stopping", cont |-> container, dir |-> fileUploadDir,
                    from |-> SessState(activeSessionId)]]
    /\ UNCHANGED <<activeSessionId, sessionFiles, container, nextSid, nextFid,
                   startPc, imageExists, buildDir, running, bgStops, storage,
                   files, timers, emitted, crashed, spooler>>

\* /end-session up to `await containerInstance.stop()`
EndSessionAwait ==
    /\ crashed = None
    /\ SessionActive
    /\ container # None
    /\ activeSessionId' = None
    /\ fileUploadDir' = None
    /\ stopCalls' = stopCalls \cup {container}
    /\ endH' = [endH EXCEPT ![activeSessionId] =
                   [pc |-> "stopping", cont |-> container, dir |-> fileUploadDir,
                    from |-> SessState(activeSessionId)]]
    /\ UNCHANGED <<sessionFiles, container, nextSid, nextFid, startPc, imageExists,
                   buildDir, running, bgStops, storage, files, timers, emitted,
                   crashed, spooler>>

\* An /end-session in which an error of stop() reaches the handler's catch.
EndStopReturn_m(s, stopOk, cleanOk) ==
    /\ crashed = None
    /\ endH[s].pc = "stopping"
    /\ running' = IF stopOk THEN running \ {endH[s].cont} ELSE running
    /\ IF stopOk
       THEN EndFinish(s, endH[s].cont, endH[s].dir, endH[s].from, cleanOk)
       ELSE /\ endH' = [endH EXCEPT ![s].pc = "failed"]
            /\ UNCHANGED <<container, dirs, disk, inflight, sessionFiles, files,
                           emitted>>
    /\ UNCHANGED <<activeSessionId, fileUploadDir, nextSid, nextFid, startPc,
                   imageExists, buildDir, stopCalls, bgStops, timers,
                   crashed, spooler>>

\* containerInstance.stop() of /end-session returns; an error is swallowed.
EndStopReturn(s, stopOk, cleanOk) ==
    /\ crashed = None
    /\ endH[s].pc = "stopping"
    /\ running' = IF stopOk THEN running \ {endH[s].cont} ELSE running
    /\ EndFinish(s, endH[s].cont, endH[s].dir, endH[s].from, cleanOk)
    /\ UNCHANGED <<activeSessionId, fileUploadDir, nextSid, nextFid, startPc,
                   imageExists, buildDir, stopCalls, bgStops, timers,
                   crashed, spooler>>

----------------------------------------------------------------------------
\* POST /upload

\* multer diskStorage.destination with fileUploadDir unset: cb(new Error(...))
UploadNoDir ==
    /\ crashed = None
    /\ fileUploadDir = None
    /\ UNCHANGED vars

\* multer diskStorage: mkdir the session directory and store the payload
UploadStore ==
    /\ crashed = None
    /\ fileUploadDir # None
    /\ nextFid <= MaxFiles
    /\ dirs' = dirs \cup {fileUploadDir}
    /\ disk' = [disk EXCEPT ![nextFid] = fileUploadDir]
    /\ inflight' = inflight \cup {nextFid}
    /\ nextFid' = nextFid + 1
    /\ UNCHANGED <<globals, nextSid, startPc, endH, sandbox, files, timers,
                   emitted, crashed, spooler>>

\* sessionId && sessionId === activeSessionId
ValidSession(q) == q # None /\ q = activeSessionId

\* A ticket number drawn from a counter of the whole process.
NextTicket_m(q) == nextFid

\* sessionFiles[sessionId].length + 1
NextTicket(q) == Len(sessionFiles[q]) + 1

\* String(ticketNumber), as its decimal digits
RECURSIVE Digits(_)
Digits(n) == IF n < 10 THEN <<n>> ELSE Digits(n \div 10) \o <<n % 10>>

\* padStart(len, '0')
PadStart(d, len) ==
    IF Len(d) >= len THEN d ELSE [i \in 1..(len - Len(d)) |-> 0] \o d

\* `#${String(ticketNumber).padStart(3, '0')}`, without the '#'
TicketLabel(n) == PadStart(Digits(n), 3)

\* A handler that announces the file before it tests the request.
UploadReject_m(p, q) ==
    /\ crashed = None
    /\ p \in inflight \cup {None}
    /\ ~ValidSession(q) \/ p = None
    /\ inflight' = inflight \ {p}
    /\ emitted' = Emit(Event("file-uploaded", q, p))
    /\ UNCHANGED <<globals, nextSid, nextFid, startPc, endH, sandbox, dirs, disk,
                   files, timers, crashed, spooler>>

\* /upload handler rejecting the request: the stored payload stays on disk
UploadReject(p, q) ==
    /\ crashed = None
    /\ p \in inflight \cup {None}
    /\ ~ValidSession(q) \/ p = None
    /\ inflight' = inflight \ {p}
    /\ UNCHANGED <<globals, nextSid, nextFid, startPc, endH, sandbox, dirs, disk,
                   files, timers, emitted, crashed, spooler>>

\* An /upload handler that starts no retention timer.
UploadAccept_m(p, q) ==
    /\ crashed = None
    /\ p \in inflight
    /\ ValidSession(q)
    /\ inflight' = inflight \ {p}
    /\ files' = [files EXCEPT ![p] =
                    [sid |-> q, ticket |-> NextTicket(q), removedBy |-> "none"]]
    /\ sessionFiles' = [sessionFiles EXCEPT ![q] = Append(@, p)]
    /\ emitted' = Emit(Event("file-uploaded", q, p))
    /\ UNCHANGED <<activeSessionId, container, fileUploadDir, nextSid, nextFid,
                   startPc, endH, sandbox, dirs, disk, timers, crashed, spooler>>

\* /upload handler accepting the file stored as payload p
UploadAccept(p, q) ==
    /\ crashed = None
    /\ p \in inflight
    /\ ValidSession(q)
    /\ inflight' = inflight \ {p}
    /\ files' = [files EXCEPT ![p] =
                    [sid |-> q, ticket |-> NextTicket(q), removedBy |-> "none"]]
    /\ sessionFiles' = [sessionFiles EXCEPT ![q] = Append(@, p)]
    /\ emitted' = Emit(Event("file-uploaded", q, p))
    /\ ttl' = ttl \cup {p}
    /\ UNCHANGED <<activeSessionId, container, fileUploadDir, nextSid, nextFid,
                   startPc, endH, sandbox, dirs, disk, simPending, execPending,
                   crashed, spooler>>

\* Removal of a queued record by a callback: splice, fs.unlink, io.emit
RemoveRecord(s, f, by) ==
    /\ sessionFiles' = [sessionFiles EXCEPT ![s] = Splice(@, f)]
    /\ disk' = [disk EXCEPT ![f] = None]
    /\ files' = [files EXCEPT ![f].removedBy =
                    IF Found(s, f) THEN by ELSE files[f].removedBy]
    /\ emitted' = Emit(Event("file-deleted", s, f))

\* A TTL callback without the index > -1 test.
TTLFound_m(f) == files[f].sid \in DOMAIN sessionFiles

\* TTL callback: if (sessionFiles[sessionId]) and index > -1
TTLFound(f) == Found(files[f].sid, f)

\* setTimeout callback registered by /upload, 2 minutes later
TTLFire(f) ==
    /\ crashed = None
    /\ f \in ttl
    /\ ttl' = ttl \ {f}
    /\ IF TTLFound(f)
       THEN RemoveRecord(files[f].sid, f, "ttl")
       ELSE UNCHANGED <<sessionFiles, disk, files, emitted>>
    /\ UNCHANGED <<activeSessionId, container, fileUploadDir, nextSid, nextFid,
                   startPc, endH, sandbox, dirs, inflight, simPending,
                   execPending, crashed, spooler>>

----------------------------------------------------------------------------
\* POST /print-job

PrintInvalidSession(q) ==
    /\ crashed = None
    /\ ~ValidSession(q)
    /\ UNCHANGED vars

\* sessionFiles[sessionId]?.find(f => f.id === fileId) is undefined
PrintNotFound(f, q) ==
    /\ crashed = None
    /\ ValidSession(q)
    /\ ~Found(q, f)
    /\ UNCHANGED vars

\* A dispatch that looks the file up without testing the session id.
PrintSimAnySession_m(f, q) ==
    /\ crashed = None
    /\ Found(q, f)
    /\ simPending' = simPending \cup {f}
    /\ UNCHANGED <<globals, nextSid, nextFid, startPc, endH, sandbox, storage,
                   files, ttl, execPending, emitted, crashed, spooler>>

\* A dispatch that schedules the print without looking the file up.
PrintSimAnyFile_m(f, q) ==
    /\ crashed = None
    /\ ValidSession(q)
    /\ simPending' = simPending \cup {f}
    /\ UNCHANGED <<globals, nextSid, nextFid, startPc, endH, sandbox, storage,
                   files, ttl, execPending, emitted, crashed, spooler>>

\* printerName === 'Secure_Virtual_Printer': setTimeout(..., 2000)
PrintSim(f, q) ==
    /\ crashed = None
    /\ ValidSession(q)
    /\ Found(q, f)
    /\ simPending' = simPending \cup {f}
    /\ UNCHANGED <<globals, nextSid, nextFid, startPc, endH, sandbox, storage,
                   files, ttl, execPending, emitted, crashed, spooler>>

\* A dispatch that takes the record out of the queue before running lp.
PrintReal_m(f, q) ==
    /\ crashed = None
    /\ ValidSession(q)
    /\ Found(q, f)
    /\ execPending' = execPending \cup {f}
    /\ RemoveRecord(q, f, "exec")
    /\ UNCHANGED <<activeSessionId, container, fileUploadDir, nextSid, nextFid,
                   startPc, endH, sandbox, dirs, inflight, ttl, simPending,
                   crashed, spooler>>

\* any other printerName: exec(`lp -d ...`)
PrintReal(f, q) ==
    /\ crashed = None
    /\ ValidSession(q)
    /\ Found(q, f)
    /\ execPending' = execPending \cup {f}
    /\ UNCHANGED <<globals, nextSid, nextFid, startPc, endH, sandbox, storage,
                   files, ttl, simPending, emitted, crashed, spooler>>

\* Completion callback body shared by the two sinks: sessionFiles[sessionId]
\* is dereferenced without a guard, so a deleted queue is an uncaught TypeError.
Complete(f, by) ==
    LET s == files[f].sid
    IN IF s \notin DOMAIN sessionFiles
       THEN /\ crashed' = f
            /\ UNCHANGED <<sessionFiles, disk, files, emitted>>
       ELSE /\ IF Found(s, f)
               THEN RemoveRecord(s, f, by)
               ELSE UNCHANGED <<sessionFiles, disk, files, emitted>>
            /\ UNCHANGED crashed

\* A simulation-sink callback that only answers.
SimFire_m(f) ==
    /\ crashed = None
    /\ f \in simPending
    /\ simPending' = simPending \ {f}
    /\ UNCHANGED <<server, spooler>>

\* simulation-sink setTimeout callback, 2 s after the dispatch
SimFire(f) ==
    /\ crashed = None
    /\ f \in simPending
    /\ simPending' = simPending \ {f}
    /\ Complete(f, "sim")
    /\ UNCHANGED <<activeSessionId, container, fileUploadDir, nextSid, nextFid,
                   startPc, endH, sandbox, dirs, inflight, ttl, execPending,
                   spooler>>

\* An exec callback that removes the record whatever lp reported.
ExecReturn_m(f, ok) ==
    /\ crashed = None
    /\ f \in execPending
    /\ execPending' = execPending \ {f}
    /\ Complete(f, "exec")
    /\ UNCHANGED <<activeSessionId, container, fileUploadDir, nextSid, nextFid,
                   startPc, endH, sandbox, dirs, inflight, ttl, simPending,
                   spooler>>

\* exec callback of the real target; ok = FALSE is the spooler's error
ExecReturn(f, ok) ==
    /\ crashed = None
    /\ f \in execPending
    /\ execPending' = execPending \ {f}
    /\ IF ok
       THEN Complete(f, "exec")
       ELSE UNCHANGED <<sessionFiles, disk, files, emitted, crashed>>
    /\ UNCHANGED <<activeSessionId, container, fileUploadDir, nextSid, nextFid,
                   startPc, endH, sandbox, dirs, inflight, ttl, simPending,
                   spooler>>

----------------------------------------------------------------------------
\* GET /session-files

\* res.status(400).json({ message: 'Invalid session.' })
InvalidSession == [status |-> 400, files |-> << >>]

\* The answer to a request that carries session id q.
SessionFilesResponse(q) ==
    IF ~ValidSession(q) THEN InvalidSession
    ELSE [status |-> 200,
          files |-> IF q \in DOMAIN sessionFiles THEN sessionFiles[q] ELSE << >>]

SessionFiles(q) ==
    /\ crashed = None
    /\ UNCHANGED vars

----------------------------------------------------------------------------
\* GET /printers

SimulationSink ==
    [name |-> "Secure_Virtual_Printer", status |-> "Ready (Simulation)"]

\* Lines of `lpstat -a` output, each as line.split(' ') yields it: an empty
\* line, a single space, two printers, the "no destinations" message and a
\* line with a leading space.
Lines ==
    { <<"">>, <<"", "">>, <<"HP_LaserJet", "accepting", "requests">>,
      <<"Canon_MX", "accepting", "requests">>,
      <<"lpstat:", "No", "destinations", "added.">>, <<"", "HP_LaserJet">> }

\* stdout.split('\n'), the empty sequence being the empty string of a failed
\* or silent lpstat.
LpstatOutputs == UNION {[1..n -> Lines] : n \in 0..MaxLines}

\* line.trim() === ''
Blank(line) == \A i \in 1..Len(line) : line[i] = ""

\* The printers array before the final push.
RealTargets(stdout) ==
    IF stdout = << >> THEN << >>
    ELSE LET lines == SelectSeq(stdout, LAMBDA line : ~Blank(line))
             real == SelectSeq(lines,
                               LAMBDA line : line[1] # "" /\ line[1] # "lpstat:")
         IN [i \in 1..Len(real) |-> [name |-> real[i][1], status |-> "Ready"]]

\* A handler that offers the simulation sink only when no printer is found.
ListTargets_m(stdout) ==
    IF RealTargets(stdout) = << >> THEN <<SimulationSink>>
    ELSE RealTargets(stdout)

\* printers.push({ name: 'Secure_Virtual_Printer', ... }); res.json(printers)
ListTargets(stdout) == RealTargets(stdout) \o <<SimulationSink>>

\* exec('lpstat -a', ...): the child runs and leaves its output
GetPrinters ==
    /\ crashed = None
    /\ lpstat = {}
    /\ \E out \in LpstatOutputs : lpstat' = {out}
    /\ UNCHANGED <<server, printers>>

\* exec callback of /printers
PrintersReturn ==
    /\ crashed = None
    /\ \E out \in lpstat : printers' = {ListTargets(out)}
    /\ lpstat' = {}
    /\ UNCHANGED server

----------------------------------------------------------------------------
\* io.on('connection')

\* The current-session-status messages sent to the socket that connects.
CurrentSessionStatus ==
    IF SessionActive
    THEN {[active |-> TRUE, sessionId |-> activeSessionId,
           files |-> IF activeSessionId \in DOMAIN sessionFiles
                     THEN sessionFiles[activeSessionId] ELSE << >>]}
    ELSE {}

Connect ==
    /\ crashed = None
    /\ UNCHANGED vars

----------------------------------------------------------------------------
SessionStep ==
    \/ StartSessionReject
    \/ StartSessionAccept
    \/ \E s \in Sids, ok \in BOOLEAN : ListImagesReturn(s, ok)
    \/ \E s \in Sids, ok \in BOOLEAN : BuildReturn(s, ok)
    \/ \E s \in Sids, ok \in BOOLEAN : CreateReturn(s, ok)
    \/ \E s \in Sids, ok \in BOOLEAN : StartReturn(s, ok)
    \/ \E s \in Sids, ok \in BOOLEAN : InspectReturn(s, ok)
    \/ \E s \in Sids, ok \in BOOLEAN : QrReturn(s, ok)
    \/ \E c \in Sids, ok \in BOOLEAN : BgStopReturn(c, ok)
    \/ EndSessionReject
    \/ \E cleanOk \in BOOLEAN : EndSessionDirect(cleanOk)
    \/ EndSessionAwait
    \/ \E s \in Sids, stopOk \in BOOLEAN, cleanOk \in BOOLEAN :
           EndStopReturn(s, stopOk, cleanOk)
    \/ Connect

FileStep ==
    \/ UploadNoDir
    \/ UploadStore
    \/ \E p \in Fids \cup {None}, q \in Sids \cup {None} : UploadReject(p, q)
    \/ \E p \in Fids, q \in Sids : UploadAccept(p, q)
    \/ \E f \in Fids : TTLFire(f)
    \/ \E q \in Sids \cup {None} : PrintInvalidSession(q)
    \/ \E f \in Fids, q \in Sids : PrintNotFound(f, q)
    \/ \E f \in Fids, q \in Sids : PrintSim(f, q)
    \/ \E f \in Fids, q \in Sids : PrintReal(f, q)
    \/ \E f \in Fids : SimFire(f)
    \/ \E f \in Fids, ok \in BOOLEAN : ExecReturn(f, ok)
    \/ \E q \in Sids \cup {None} : SessionFiles(q)

PrintersStep == GetPrinters \/ PrintersReturn

Next == SessionStep \/ FileStep \/ PrintersStep

\* The whole program.
Spec == Init /\ [][Next]_vars

\* The session lifecycle alone: no request touches the file queue.
SpecSession == Init /\ [][SessionStep]_vars

\* Every call of the sandbox runtime that a handler awaits returns or fails.
\* The continuation of the /start-session handler of s after the call it is
\* waiting for.
StartContinues(s) ==
    \E ok \in BOOLEAN :
        \/ ListImagesReturn(s, ok)
        \/ BuildReturn(s, ok)
        \/ CreateReturn(s, ok)
        \/ StartReturn(s, ok)
        \/ InspectReturn(s, ok)
        \/ QrReturn(s, ok)

RuntimeReturns(s) ==
    /\ WF_vars(StartContinues(s))
    /\ WF_vars(\E stopOk \in BOOLEAN, cleanOk \in BOOLEAN :
                  EndStopReturn(s, stopOk, cleanOk))

\* The accepted /start-session and /end-session requests and the
\* continuations of their handlers; the stop that a rollback starts without
\* awaiting it is left out, no handler waits for it.
LifecycleStep ==
    \/ StartSessionAccept
    \/ \E s \in Sids : StartContinues(s)
    \/ \E cleanOk \in BOOLEAN : EndSessionDirect(cleanOk)
    \/ EndSessionAwait
    \/ \E s \in Sids, stopOk \in BOOLEAN, cleanOk \in BOOLEAN :
           EndStopReturn(s, stopOk, cleanOk)

SpecLifecycle ==
    Init /\ [][LifecycleStep]_vars /\ \A s \in Sids : RuntimeReturns(s)

\* The session lifecycle of a host on which the base image has not been
\* built yet.
InitNoImage == Init /\ ~imageExists

SpecBuild == InitNoImage /\ [][SessionStep]_vars

\* The state in which the first /start-session has answered 200 (the base
\* image existed): one Active session with an empty queue.
InitQueue ==
    /\ activeSessionId = 1
    /\ sessionFiles = (1 :> << >>)
    /\ container = 1
    /\ fileUploadDir = 1
    /\ nextSid = 2
    /\ nextFid = 1
    /\ startPc = [s \in Sids |-> IF s = 1 THEN "done" ELSE "none"]
    /\ endH = [s \in Sids |-> NoEnd]
    /\ imageExists = TRUE
    /\ buildDir = FALSE
    /\ running = {1}
    /\ stopCalls = {}
    /\ bgStops = {}
    /\ dirs = {}
    /\ disk = [f \in Fids |-> None]
    /\ inflight = {}
    /\ files = [f \in Fids |-> NoFile]
    /\ ttl = {}
    /\ simPending = {}
    /\ execPending = {}
    /\ emitted = SetToBag({Event("session-started", 1, None)})
    /\ crashed = None
    /\ lpstat = {}
    /\ printers = {}

QueueStep ==
    \/ StartSessionReject
    \/ EndSessionReject
    \/ EndSessionAwait
    \/ \E s \in Sids, stopOk \in BOOLEAN, cleanOk \in BOOLEAN :
           EndStopReturn(s, stopOk, cleanOk)
    \/ Connect
    \/ FileStep

\* The file queue of one session from Active to its end: uploads, retention
\* timers, dispatches and /end-session, with no later session started.
SpecQueue == InitQueue /\ [][QueueStep]_vars

ProvisionStep ==
    \/ StartSessionReject
    \/ StartSessionAccept
    \/ \E s \in Sids, ok \in BOOLEAN : ListImagesReturn(s, ok)
    \/ \E s \in Sids, ok \in BOOLEAN : BuildReturn(s, ok)
    \/ \E s \in Sids, ok \in BOOLEAN : CreateReturn(s, ok)
    \/ \E s \in Sids, ok \in BOOLEAN : StartReturn(s, ok)
    \/ \E s \in Sids, ok \in BOOLEAN : InspectReturn(s, ok)
    \/ \E s \in Sids, ok \in BOOLEAN : QrReturn(s, ok)
    \/ \E c \in Sids, ok \in BOOLEAN : BgStopReturn(c, ok)
    \/ UploadNoDir
    \/ UploadStore
    \/ \E p \in Fids \cup {None}, q \in Sids \cup {None} : UploadReject(p, q)
    \/ \E p \in Fids, q \in Sids : UploadAccept(p, q)
    \/ \E q \in Sids \cup {None} : PrintInvalidSession(q)
    \/ \E f \in Fids, q \in Sids : PrintNotFound(f, q)
    \/ \E f \in Fids, q \in Sids : PrintSim(f, q)
    \/ \E f \in Fids, q \in Sids : PrintReal(f, q)

\* The accepted requests of one session and the two kinds of timer.
TimerStep ==
    \/ UploadStore
    \/ \E p \in Fids, q \in Sids : UploadAccept(p, q)
    \/ \E f \in Fids : TTLFire(f)
    \/ \E f \in Fids, q \in Sids : PrintSim(f, q)
    \/ \E f \in Fids : SimFire(f)
    \/ EndSessionAwait
    \/ \E s \in Sids, stopOk \in BOOLEAN, cleanOk \in BOOLEAN :
           EndStopReturn(s, stopOk, cleanOk)

\* One session in which a pending simulation-sink timer does fire: Node runs
\* a due setTimeout callback as long as the process lives.
SpecSim ==
    InitQueue /\ [][TimerStep]_vars /\ \A f \in Fids : WF_vars(SimFire(f))

\* One session in which a pending retention timer does fire.
SpecTTL ==
    InitQueue /\ [][TimerStep]_vars /\ \A f \in Fids : WF_vars(TTLFire(f))

\* The state in which session 1, whose one file was still queued, has been
\* ended and session 2 has been started: the retention timer of the file of
\* session 1 is still pending.
InitLater ==
    /\ activeSessionId = 2
    /\ sessionFiles = (2 :> << >>)
    /\ container = 2
    /\ fileUploadDir = 2
    /\ nextSid = 3
    /\ nextFid = 2
    /\ startPc = [s \in Sids |-> IF s <= 2 THEN "done" ELSE "none"]
    /\ endH = [s \in Sids |->
                  IF s = 1
                  THEN [pc |-> "done", cont |-> 1, dir |-> 1, from |-> "Active"]
                  ELSE NoEnd]
    /\ imageExists = TRUE
    /\ buildDir = FALSE
    /\ running = {2}
    /\ stopCalls = {1}
    /\ bgStops = {}
    /\ dirs = {}
    /\ disk = [f \in Fids |-> None]
    /\ inflight = {}
    /\ files = [f \in Fids |->
                   IF f = 1 THEN [sid |-> 1, ticket |-> 1, removedBy |-> "end"]
                   ELSE NoFile]
    /\ ttl = {1}
    /\ simPending = {}
    /\ execPending = {}
    /\ emitted = SetToBag({Event("session-started", 1, None),
                           Event("file-uploaded", 1, 1),
                           Event("session-ended", 1, None),
                           Event("session-started", 2, None)})
    /\ crashed = None
    /\ lpstat = {}
    /\ printers = {}

\* The queue of a session that follows an ended one.
SpecLater == InitLater /\ [][QueueStep]_vars

\* The target list alone.
SpecPrinters == Init /\ [][PrintersStep]_vars

\* /start-session from Idle to its answer, with the /upload and /print-job
\* requests that arrive meanwhile; no timer fires and no session is ended.
SpecProvision == Init /\ [][ProvisionStep]_vars

----------------------------------------------------------------------------
\* Properties

Started(s) == Event("session-started", s, None)
Ended(s) == Event("session-ended", s, None)
Uploaded(f) == Event("file-uploaded", files[f].sid, f)
Deleted(f) == Event("file-deleted", files[f].sid, f)

\* File ids of the records /upload has created for session s so far.
RecordsOf(s) == {f \in Fids : files[f].sid = s}

\* C1: in every reachable state at most one session is Provisioning, Active
\* or Ending.
C1_AtMostOneSession == Cardinality(NonIdle) <= 1

\* C2: whenever some session is Provisioning, Active or Ending, /start-session
\* takes its reject branch (400), which changes nothing.
C2_StartRejectedWhenNotIdle == ~GlobalIdle => SessionActive

\* C3: the k-th upload accepted for a session is given ticket number k.
C3_KthUploadGetsTicketK ==
    [][\A p \in Fids :
          (files[p].sid = None /\ files'[p].sid # None)
              => files'[p].ticket = Cardinality(RecordsOf(files'[p].sid)) + 1]_vars

\* C4: no two records of one session, queued or removed, carry the same
\* ticket number.
C4_TicketNeverReused ==
    \A f, g \in Fids :
        (f # g /\ files[f].sid # None /\ files[f].sid = files[g].sid)
            => files[f].ticket # files[g].ticket

\* A timer or completion callback of file f runs in this step.
TriggerFires(f) ==
    \/ f \in ttl /\ f \notin ttl'
    \/ f \in simPending /\ f \notin simPending'
    \/ f \in execPending /\ f \notin execPending'

\* C5: at most one file-deleted is ever emitted per file id, and a trigger
\* that finds the record absent changes nothing.
C5_RemoveAtMostOnce ==
    [][\A f \in Fids :
          /\ Count(Deleted(f))' <= 1
          /\ (TriggerFires(f) /\ ~Found(files[f].sid, f))
                 => UNCHANGED <<globals, dirs, disk, inflight, files, emitted,
                                crashed>>]_vars

\* The record of f was removed by the completion of a dispatch.
Printed(f) == files[f].removedBy \in {"sim", "exec"}

PrintedOnce(f) == Printed(f) => Count(Deleted(f)) = 1

\* C6: a file removed by a print dispatch has exactly one file-deleted, and
\* its TTL timer firing afterwards leaves the queue and the notifications
\* unchanged.
C6_TTLAfterPrintIsNoOp ==
    [][\A f \in Fids :
          /\ PrintedOnce(f)
          /\ PrintedOnce(f)'
          /\ (Printed(f) /\ f \in ttl /\ f \notin ttl')
                 => UNCHANGED <<globals, dirs, disk, inflight, files, emitted,
                                crashed>>]_vars

\* A file was removed by its dispatch and its TTL timer has fired since.
C6_Witness == \E f \in Fids : Printed(f) /\ f \notin ttl

\* Once session-ended{s} is out: s is not the current session, it is Idle,
\* and it has neither queue nor directory nor payload.
EndedClean(s) ==
    Count(Ended(s)) > 0 =>
        /\ activeSessionId # s
        /\ SessState(s) = "Idle"
        /\ s \notin DOMAIN sessionFiles
        /\ s \notin dirs
        /\ \A f \in Fids : disk[f] # s

\* This step emits no notification about a file of session s.
NoFileEvent(s) ==
    \A e \in BagToSet(emitted') :
        (e.sid = s /\ e.fid # None) => CopiesIn(e, emitted') = CopiesIn(e, emitted)

C8_EndFromActive ==
    [][\A s \in Sids :
          (endH[s].pc # "done" /\ endH'[s].pc = "done" /\ endH'[s].from = "Active")
              => /\ GlobalIdle'
                 /\ s \notin DOMAIN sessionFiles'
                 /\ s \notin dirs'
                 /\ s \in stopCalls'
                 /\ Count(Ended(s))' = 1]_vars

\* C9: when provisioning fails the handler answers 500 with the session id,
\* upload directory and sandbox reference reset, so that /start-session is
\* accepted again, and session-started is never emitted for that session.
C9_ProvisioningFailureRollsBack ==
    [][\A s \in Sids :
          /\ (startPc[s] = "failed" => Count(Started(s)) = 0)'
          /\ (startPc[s] \in InFlight /\ startPc'[s] = "failed")
                 => /\ activeSessionId' = None
                    /\ fileUploadDir' = None
                    /\ container' = None
                    /\ ~SessionActive']_vars

\* A session whose provisioning failed, followed by an accepted /start-session.
C9_Witness ==
    \E s \in Sids :
        startPc[s] = "failed" /\ endH[s].pc = "none" /\ activeSessionId > s

\* A step of the /end-session handler up to its first suspension.
EndSessionReq ==
    \/ EndSessionReject
    \/ \E cleanOk \in BOOLEAN : EndSessionDirect(cleanOk)
    \/ EndSessionAwait

\* C10: in Idle state /end-session takes its reject branch (400) and changes
\* nothing.
C10_EndRejectedWhenIdle ==
    [][/\ GlobalIdle => ~SessionActive
       /\ (GlobalIdle => ~SessionActive)'
       /\ (GlobalIdle /\ EndSessionReq) => UNCHANGED vars]_vars

\* Idle again after a session has been ended.
C10_Witness == GlobalIdle /\ ~SessionActive /\ \E s \in Sids : endH[s].pc = "done"

\* /upload creates the record of f in this step, or /print-job hands f to a
\* target.
Accepted(f) ==
    \/ files[f].sid = None /\ files'[f].sid # None
    \/ f \in simPending' \ simPending
    \/ f \in execPending' \ execPending

\* C11: an upload or a print dispatch is accepted only for a session that is
\* Active; while the session is Provisioning, Ending or Idle the request is
\* rejected and adds no record.
C11_AcceptedOnlyWhileActive ==
    [][\A f \in Fids :
          Accepted(f) => SessState(files'[f].sid) = "Active"]_vars

\* The /end-session handler of session s has been accepted.
EndBegun(s) == endH[s].pc # "none"

\* C12: once /end-session has begun for a session, its id is no longer valid,
\* and no step creates a record, starts a retention timer or emits
\* file-uploaded for it.
C12_NoUploadAfterEndBegan ==
    [][\A s \in Sids :
          EndBegun(s) =>
              /\ ~ValidSession(s)
              /\ RecordsOf(s)' = RecordsOf(s)
              /\ \A p \in Fids :
                     /\ (disk[p] = s /\ p \notin ttl) => p \notin ttl'
                     /\ Count(Event("file-uploaded", s, p))'
                            = Count(Event("file-uploaded", s, p))]_vars

\* /end-session is waiting for the sandbox to stop while a payload that
\* multer stored for the session has not reached the /upload handler yet.
C12_Witness ==
    \E s \in Sids, p \in Fids :
        endH[s].pc = "stopping" /\ p \in inflight /\ disk[p] = s

\* A request that carries session id q is handled in this step.
Request(q) ==
    \/ \E p \in Fids \cup {None} : UploadReject(p, q)
    \/ \E p \in Fids : UploadAccept(p, q)
    \/ SessionFiles(q)
    \/ PrintInvalidSession(q)
    \/ \E f \in Fids : PrintNotFound(f, q) \/ PrintSim(f, q) \/ PrintReal(f, q)

\* C13: a request whose session id is missing or is not the active one gets
\* an error answer and leaves every queue, record, payload, timer and
\* notification as it was; this holds for the id of an ended session while a
\* later session is active.
C13_ForeignIdTouchesNothing ==
    [][\A q \in Sids \cup {None} :
          ~ValidSession(q) =>
              /\ SessionFilesResponse(q) = InvalidSession
              /\ Request(q) => UNCHANGED <<sessionFiles, files, disk, timers,
                                           emitted>>]_vars

\* Session 1 has ended, session 2 is active with a queued file that is
\* neither printed nor expired, and the id of session 1 is not valid.
C13_Witness ==
    \E s1, s2 \in Sids, f \in Fids :
        /\ Count(Ended(s1)) > 0
        /\ activeSessionId = s2 /\ s2 # s1
        /\ Found(s2, f) /\ f \in ttl
        /\ ~ValidSession(s1)

\* C14: a /print-job with the active session id for a file that is not in
\* the queue (never uploaded, expired or already printed) hands nothing to a
\* target and changes nothing.
C14_DispatchOfAbsentFile ==
    [][\A f \in Fids, q \in Sids :
          (/\ ValidSession(q)
           /\ ~Found(q, f)
           /\ PrintNotFound(f, q) \/ PrintSim(f, q) \/ PrintReal(f, q))
              => UNCHANGED vars]_vars

\* The session is active, one of its files has expired and another has been
\* printed.
C14_Witness ==
    \E f, g \in Fids :
        /\ ValidSession(files[f].sid)
        /\ files[g].sid = files[f].sid
        /\ files[f].removedBy = "ttl"
        /\ Printed(g)

\* A /print-job for f that carries the active session id passes both checks.
Dispatchable(f) == \E q \in Sids : ValidSession(q) /\ Found(q, f)

\* C15: when lp reports an error the record, its payload, its retention
\* timer and the notifications are as before, and if the file could be
\* dispatched before, it still can be.
C15_PrintFailureKeepsRecord ==
    [][\A f \in Fids :
          ExecReturn(f, FALSE) =>
              /\ UNCHANGED <<sessionFiles, files, disk, ttl, emitted>>
              /\ Dispatchable(f) => Dispatchable(f)']_vars

\* lp is running for a queued file of the active session whose retention
\* timer is pending: the state in which the spooler's error arrives.
C15_Witness ==
    \E f \in Fids :
        f \in execPending /\ Dispatchable(f) /\ f \in ttl /\ disk[f] # None

\* C16: when lp reports success for a record that is still queued, the
\* record and its payload are removed and its one file-deleted is emitted;
\* accepting the dispatch removes nothing, and only the success callback
\* marks a record as printed by a real target.
C16_PrintSuccessRemovesRecord ==
    [][\A f \in Fids :
          /\ (ExecReturn(f, TRUE) /\ Found(files[f].sid, f))
                 => /\ ~Found(files[f].sid, f)'
                    /\ files'[f].removedBy = "exec"
                    /\ disk'[f] = None
                    /\ Count(Deleted(f))' = 1
                    /\ Count(Deleted(f)) = 0
          /\ (\E q \in Sids : PrintReal(f, q))
                 => UNCHANGED <<sessionFiles, files, disk, emitted>>
          /\ (files[f].removedBy # "exec" /\ files'[f].removedBy = "exec")
                 => ExecReturn(f, TRUE)]_vars

\* A record has been removed by the success callback of lp.
C16_Witness == \E f \in Fids : files[f].removedBy = "exec" /\ disk[f] = None

\* The record of f is in the queue of its session.
Queued(f) == Found(files[f].sid, f)

\* /end-session has been accepted for the session of f.
SessionEnding(f) == files[f].sid # None /\ EndBegun(files[f].sid)

\* C17: a queued file handed to the simulation sink is eventually out of the
\* queue with its file-deleted emitted, unless /end-session begins first; the
\* callback removes that file and no other.
C17_SimDispatchRemovesFile ==
    /\ \A f \in Fids :
           (f \in simPending /\ Queued(f))
               ~> \/ ~Queued(f) /\ Count(Deleted(f)) = 1
                  \/ SessionEnding(f)
    /\ [][\A f \in Fids :
             (SimFire(f) /\ Queued(f))
                 => /\ ~Queued(f)'
                    /\ files'[f].removedBy = "sim"
                    /\ Count(Deleted(f))' = 1
                    /\ \A g \in Fids \ {f} :
                           /\ Queued(g) => Queued(g)'
                           /\ Count(Deleted(g))' = Count(Deleted(g))]_vars

\* The simulation sink has removed one file while another file of the same
\* session is still queued.
C17_Witness ==
    \E f, g \in Fids :
        /\ files[f].removedBy = "sim"
        /\ files[g].sid = files[f].sid
        /\ Queued(g)

\* C18: every queued file eventually leaves the queue; if it is neither
\* printed nor dropped by /end-session, its retention timer removes it, deletes
\* its payload and emits its one file-deleted.
C18_TTLRemovesEveryFile ==
    /\ \A f \in Fids :
           Queued(f)
               ~> \/ /\ files[f].removedBy = "ttl"
                     /\ disk[f] = None
                     /\ Count(Deleted(f)) = 1
                  \/ Printed(f)
                  \/ SessionEnding(f)
    /\ \A f \in Fids : Queued(f) ~> ~Queued(f)

\* The retention timer has removed a file of a session that is still active.
C18_Witness ==
    \E f \in Fids :
        /\ files[f].removedBy = "ttl"
        /\ ValidSession(files[f].sid)
        /\ ~SessionEnding(f)

\* C19: every answer of /printers lists the simulation sink, whatever lpstat
\* printed.
C19_SimulationSinkAlwaysListed ==
    \A answer \in printers :
        \E i \in 1..Len(answer) : answer[i] = SimulationSink

\* /printers has answered an lpstat that named no printer: the answer is
\* the simulation sink alone.
C19_Witness == printers = {<<SimulationSink>>}

\* C20: whenever a session is Provisioning, Active or Ending, the socket that
\* connects is sent one status: active, the id of that session, and the
\* records now in its queue.
C20_StatusMatchesState ==
    \A s \in NonIdle :
        CurrentSessionStatus =
            {[active |-> TRUE, sessionId |-> s,
              files |-> IF s \in DOMAIN sessionFiles THEN sessionFiles[s]
                        ELSE << >>]}

\* C21: the first upload accepted for a session, also for a session started
\* after another one ended, gets ticket 1, shown as 001.
C21_FirstTicketIsOne ==
    [][\A p \in Fids :
          (/\ files[p].sid = None
           /\ files'[p].sid # None
           /\ RecordsOf(files'[p].sid) = {})
              => /\ files'[p].ticket = 1
                 /\ TicketLabel(files'[p].ticket) = <<0, 0, 1>>]_vars

\* A session that followed an ended one has a record with ticket 1.
C21_Witness ==
    \E s \in Sids, f \in Fids :
        /\ Count(Ended(s)) > 0
        /\ files[f].sid \notin {None, s}
        /\ files[f].ticket = 1

\* C22: no retention timer is pending for a file that is not in the queue,
\* whether it was removed by a dispatch, by its timer or by /end-session.
C22_NoTimerForRemovedFile == \A f \in ttl : Queued(f)

\* C23: when session-ended is out, a file-deleted has been emitted for every
\* record the session had, those dropped by /end-session included.
C23_EndAnnouncesEveryRecord ==
    \A s \in Sids, f \in Fids :
        (Count(Ended(s)) > 0 /\ files[f].sid = s) => Count(Deleted(f)) >= 1

\* Sessions whose ensureBaseImage is waiting for its build.
Building == {s \in Sids : startPc[s] = "build"}

\* C24: at most one build of the base image is in flight at any time.
C24_OneBuildInFlight == Cardinality(Building) <= 1

\* C25: once the base image exists it stays, and no ensureBaseImage that
\* looks it up afterwards starts a build.
C25_NoBuildOnceImageExists ==
    [][/\ imageExists => imageExists'
       /\ \A s \in Sids :
              (imageExists /\ startPc[s] = "listImages")
                  => startPc'[s] # "build"]_vars

\* The image has been built; session s1 was ended from Active, and the
\* ensureBaseImage of the later session s2 has gone from its lookup straight
\* to createContainer.
C25_Witness ==
    \E s1, s2 \in Sids :
        /\ s1 < s2
        /\ imageExists
        /\ endH[s1].from = "Active"
        /\ startPc[s2] = "create"

\* C26: a sandbox reference that is not null is the sandbox of the one session
\* that is Provisioning, Active or Ending.
C26_SandboxBelongsToCurrentSession == container # None => NonIdle = {container}

\* Every session is Idle and no /start-session or /end-session handler, nor a
\* stop started by a rollback, is waiting for the sandbox runtime.
Quiescent ==
    /\ GlobalIdle
    /\ \A s \in Sids : startPc[s] \notin InFlight /\ endH[s].pc # "stopping"
    /\ bgStops = {}

\* C27: when every session is Idle and no handler is in flight, the sandbox
\* reference is null and no sandbox is running, unless a stop that was
\* asked of it has failed.
C27_NoSandboxOutlivesSession ==
    Quiescent => /\ container = None
                 /\ running \subseteq stopCalls

\* C28: when stop() fails in /end-session and the cleanup itself succeeds,
\* the handler still drops the queue, deletes the directory with every
\* payload, emits session-ended and leaves the session Idle.
C28_EndToleratesFailedStop ==
    [][\A s \in Sids :
          (endH[s].pc = "stopping" /\ EndStopReturn(s, FALSE, TRUE))
              => /\ endH'[s].pc = "done"
                 /\ SessState(s)' = "Idle"
                 /\ s \notin DOMAIN sessionFiles'
                 /\ endH[s].dir \notin dirs'
                 /\ \A f \in Fids : disk'[f] # endH[s].dir
                 /\ Count(Ended(s))' = Count(Ended(s)) + 1]_vars

\* /end-session has completed for a session that had a queued file with its
\* payload, although the stop of its sandbox failed.
C28_Witness ==
    \E s \in Sids, f \in Fids :
        /\ endH[s].pc = "done"
        /\ endH[s].cont \in running
        /\ files[f].sid = s /\ files[f].removedBy = "end"
        /\ Count(Ended(s)) = 1

\* C29: when every session is Idle and no handler is in flight, there is no
\* session id, no upload directory, no sandbox reference and no queue.
C29_IdleHoldsNothing ==
    Quiescent => /\ activeSessionId = None
                 /\ fileUploadDir = None
                 /\ container = None
                 /\ DOMAIN sessionFiles = {}

\* C30: no /start-session handler waits for the runtime forever and no
\* /end-session handler waits for the stop forever: again and again each
\* session is out of these waits, and Idle once its /end-session was accepted.
C30_TransientStatesEnd ==
    \A s \in Sids :
        /\ []<>(startPc[s] \notin InFlight)
        /\ []<>(endH[s].pc # "stopping" /\ (EndBegun(s) => SessState(s) = "Idle"))

\* One session has been started and ended, and another one has been rolled
\* back.
C30_Witness ==
    \E s1, s2 \in Sids :
        /\ startPc[s1] = "done" /\ endH[s1].pc = "done" /\ endH[s1].from = "Active"
        /\ startPc[s2] = "failed"

\* C31: an /upload that is rejected, for its session id or for want of a
\* file, leaves every queue, record, next ticket number, pending timer and
\* notification as it was.
C31_RejectedUploadChangesNothing ==
    [][\A p \in Fids \cup {None}, q \in Sids \cup {None} :
          UploadReject(p, q)
              => /\ UNCHANGED <<sessionFiles, files, timers, emitted>>
                 /\ \A s \in DOMAIN sessionFiles :
                        NextTicket(s)' = NextTicket(s)]_vars

\* The session is active with a queued file, and the /upload of another
\* stored payload has been rejected.
C31_Witness ==
    \E p, f \in Fids :
        /\ disk[p] # None /\ p \notin inflight /\ files[p].sid = None
        /\ Queued(f) /\ ValidSession(files[f].sid)

\* C32: every payload stored in the directory of the active session, once
\* its /upload handler has run, has a record in that session's queue.
C32_StoredPayloadHasRecord ==
    \A p \in Fids :
        (disk[p] # None /\ disk[p] = activeSessionId /\ p \notin inflight)
            => Queued(p)

\* C33: no completion callback of a dispatch ends in an uncaught error.
C33_LateCompletionIsSilent == crashed = None
\* C34: while session b is the current one and Provisioning or Active, only
\* b's own /end-session or the failure of b's own provisioning changes the
\* current session id, the upload directory or the sandbox reference of b.
C34_CurrentSessionStaysCurrent ==
    [][\A b \in Sids :
          (/\ activeSessionId = b
           /\ SessState(b) \in {"Provisioning", "Active"}
           /\ \/ activeSessionId' # b
              \/ fileUploadDir' # fileUploadDir
              \/ container = b /\ container' # b)
              => \/ endH'[b].pc # endH[b].pc
                 \/ startPc[b] # "failed" /\ startPc'[b] = "failed"]_vars

\* C35: session-started of a session is emitted at most once and not after
\* its session-ended; file-uploaded and file-deleted of a session are emitted
\* after its session-started and before its session-ended; file-deleted of a
\* file is emitted after its file-uploaded.
C35_NotificationsInOrder ==
    [][\A s \in Sids :
          /\ Count(Started(s))' <= 1
          /\ Count(Started(s))' > Count(Started(s)) => Count(Ended(s)) = 0
          /\ \A f \in Fids :
                LET u == Event("file-uploaded", s, f)
                    d == Event("file-deleted", s, f)
                IN  /\ (Count(u)' > Count(u) \/ Count(d)' > Count(d))
                        => Count(Started(s)) > 0 /\ Count(Ended(s)) = 0
                    /\ Count(d)' > Count(d) => Count(u) > 0]_vars

\* C36: once the /end-session handler of a session whose session-started
\* was emitted has finished, its session-ended has been emitted.
C36_EndedSessionIsAnnounced ==
    \A s \in Sids :
        (Count(Started(s)) > 0 /\ endH[s].pc \in {"done", "failed"})
            => Count(Ended(s)) > 0

\* C37: no file has two accepted dispatches pending at once.
C37_OneDispatchPerFile == simPending \cap execPending = {}

====
